---------------------------- MODULE Spec2Model ----------------------------
(***************************************************************************)
(* RoadSafetyGPT: the RoadSafetyRAG service object of src/main.py, the     *)
(* priority scorer of src/utils.py and the session of src/app.py.          *)
(*                                                                         *)
(* Text is modelled as Python models it: a string is a sequence of         *)
(* characters, `in` is the substring test, lower() maps each character,    *)
(* split() cuts at whitespace.                                             *)
(***************************************************************************)
EXTENDS Integers, Sequences, FiniteSets, TLC

VARIABLES
    interventions,  \* self.interventions: the in-memory catalog (a sequence of records)
    vectorstore,    \* self.vectorstore: "None" or "Chroma" (a handle on chroma_db)
    data_dir,       \* the corpus directory DATA_DIR on disk
    chroma_db,      \* the persisted index directory CHROMA_DB_DIR on disk
    call,           \* the last call made on the object: its name and arguments
    built,          \* what the last build_knowledge_base call returned, and what it did
    chunks,         \* what the last retrieve_relevant_chunks call returned
    matched,        \* what the last search_interventions call returned (catalog positions)
    priority,       \* what the last calculate_intervention_score call returned
    ever_ready,     \* history: some build_knowledge_base call has returned True
    catalog_file,   \* the persisted catalog INTERVENTIONS_JSON on disk
    rag_system,     \* st.session_state.rag_system: "None" or "object"
    kb_built,       \* st.session_state.kb_built
    result,         \* what the last generate_response call returned
    groq_requests,  \* history: the requests sent to the text-generation service
    badge,          \* the score badges of the last display of results
    rebuild,        \* a Chroma.from_documents call in progress on chroma_db
    other_vectorstore, \* the index handle of a second session on the same chroma_db
    seen            \* what the last search of the second session found on disk

\* the session state of src/app.py and the outcome of generate_response
appVars == <<catalog_file, rag_system, kb_built, result, groq_requests, badge>>

\* a second session on the same persisted index directory
sharedVars == <<rebuild, other_vectorstore, seen>>

vars == <<interventions, vectorstore, data_dir, chroma_db, call, built, chunks,
          matched, priority, ever_ready, appVars, sharedVars>>

(***************************************************************************)
(* Bounds of the model.                                                    *)
(***************************************************************************)
MaxCatalog == 2
MaxTopK == 2
MaxRecords == 6

(***************************************************************************)
(* Strings.                                                                *)
(***************************************************************************)
UpperCase == <<"A","B","C","D","E","F","G","H","I","J","K","L","M",
               "N","O","P","Q","R","S","T","U","V","W","X","Y","Z">>
LowerCase == <<"a","b","c","d","e","f","g","h","i","j","k","l","m",
               "n","o","p","q","r","s","t","u","v","w","x","y","z">>

Alphabet ==
    {UpperCase[j] : j \in 1..26} \cup {LowerCase[j] : j \in 1..26} \cup {" "}

\* str.lower() on one character: an upper-case letter maps to its lower-case
\* letter, every other character to itself
LowerChar ==
    [c \in Alphabet |->
        IF \E j \in 1..26 : UpperCase[j] = c
        THEN LowerCase[CHOOSE j \in 1..26 : UpperCase[j] = c]
        ELSE c]

\* str.lower()
Lower(s) == [i \in 1..Len(s) |-> LowerChar[s[i]]]

\* Python's `w in s` on strings: w occurs in s as a contiguous substring
In(w, s) ==
    \E i \in 0..(Len(s) - Len(w)) : \A j \in 1..Len(w) : s[i + j] = w[j]

\* str.split(): the maximal runs of non-whitespace characters, in order
RECURSIVE SplitFrom(_, _, _, _)
SplitFrom(s, i, cur, acc) ==
    IF i > Len(s)
    THEN IF cur = <<>> THEN acc ELSE Append(acc, cur)
    ELSE IF s[i] = " "
         THEN SplitFrom(s, i + 1, <<>>, IF cur = <<>> THEN acc ELSE Append(acc, cur))
         ELSE SplitFrom(s, i + 1, Append(cur, s[i]), acc)

Split(s) == SplitFrom(s, 1, <<>>, <<>>)

\* dict.get(key, default)
Get(d, key, default) == IF key \in DOMAIN d THEN d[key] ELSE default

Min(a, b) == IF a < b THEN a ELSE b
Max(a, b) == IF a > b THEN a ELSE b

\* Python's any(word in text for word in words if len(word) > 3)
AnyLongWordIn(words, text) ==
    \E i \in 1..Len(words) : Len(words[i]) > 3 /\ In(words[i], text)

\* Python's sum(1 for kw in keywords if kw in text): the positions that count
CountIn(keywords, text) ==
    Cardinality({i \in 1..Len(keywords) : In(keywords[i], text)})

(***************************************************************************)
(* Words and texts used as inputs.                                         *)
(***************************************************************************)
W_speeding == <<"s","p","e","e","d","i","n","g">>
W_rural == <<"r","u","r","a","l">>
W_highway == <<"h","i","g","h","w","a","y">>
W_Curve == <<"C","u","r","v","e">>
W_night == <<"n","i","g","h","t">>
W_fatal == <<"f","a","t","a","l">>
W_crash == <<"c","r","a","s","h">>
W_blackspot == <<"b","l","a","c","k","s","p","o","t">>
W_death == <<"d","e","a","t","h">>
W_accident == <<"a","c","c","i","d","e","n","t">>
W_emergency == <<"e","m","e","r","g","e","n","c","y">>
W_urgent == <<"u","r","g","e","n","t">>
W_pedestrian == <<"p","e","d","e","s","t","r","i","a","n">>
W_school == <<"s","c","h","o","o","l">>
W_intersection == <<"i","n","t","e","r","s","e","c","t","i","o","n">>
W_curve == <<"c","u","r","v","e">>
W_visibility == <<"v","i","s","i","b","i","l","i","t","y">>

\* "speeding rural highway at night"
Q_ScenarioA == <<"s","p","e","e","d","i","n","g"," ","r","u","r","a","l"," ",
                 "h","i","g","h","w","a","y"," ","a","t"," ","n","i","g","h","t">>
\* "fatal crash blackspot"
Q_ScenarioB == <<"f","a","t","a","l"," ","c","r","a","s","h"," ",
                 "b","l","a","c","k","s","p","o","t">>
\* "Fatal crash Night curve rural highway"
Q_Urgent == <<"F","a","t","a","l"," ","c","r","a","s","h"," ","N","i","g","h","t"," ",
              "c","u","r","v","e"," ","r","u","r","a","l"," ","h","i","g","h","w","a","y">>
\* "night fatal crash blackspot"
Q_NightB == <<"n","i","g","h","t"," ","f","a","t","a","l"," ","c","r","a","s","h"," ",
              "b","l","a","c","k","s","p","o","t">>
\* "speed bump"
Q_Speed == <<"s","p","e","e","d"," ","b","u","m","p">>
\* "sharp curve"
Q_Curve == <<"s","h","a","r","p"," ","c","u","r","v","e">>
\* "rural rural": a query that repeats a long word
Q_Repeat == <<"r","u","r","a","l"," ","r","u","r","a","l">>
\* ""
Q_Empty == <<>>

Queries ==
    {Q_ScenarioA, Q_ScenarioB, Q_Urgent, Q_NightB, Q_Speed, Q_Curve, Q_Repeat, Q_Empty}

\* "Install rumble strips" / "straight rural highways with overspeeding"
N_Rumble == <<"I","n","s","t","a","l","l"," ","r","u","m","b","l","e"," ",
              "s","t","r","i","p","s">>
X_Rumble == <<"s","t","r","a","i","g","h","t"," ","r","u","r","a","l"," ",
              "h","i","g","h","w","a","y","s"," ","w","i","t","h"," ",
              "o","v","e","r","s","p","e","e","d","i","n","g">>
\* "Speed humps" / "urban streets"
N_Humps == <<"S","p","e","e","d"," ","h","u","m","p","s">>
X_Humps == <<"u","r","b","a","n"," ","s","t","r","e","e","t","s">>
\* "Chevron signs" / "fatal crash night curve rural highway"
N_Chevron == <<"C","h","e","v","r","o","n"," ","s","i","g","n","s">>
X_Chevron == <<"f","a","t","a","l"," ","c","r","a","s","h"," ","n","i","g","h","t"," ",
               "c","u","r","v","e"," ","r","u","r","a","l"," ","h","i","g","h","w","a","y">>
\* "Night lighting"
N_Light == <<"N","i","g","h","t"," ","l","i","g","h","t","i","n","g">>

\* the entry of the spec's scenario A
RumbleStrips ==
    [intervention |-> N_Rumble, context |-> X_Rumble,
     source |-> "IRC:SP:84", impact |-> "alerts drivers",
     keywords |-> <<W_speeding, W_rural, W_highway>>]
\* an entry with an empty keywords list
SpeedHumps ==
    [intervention |-> N_Humps, context |-> X_Humps,
     source |-> "IRC:99", impact |-> "slows traffic", keywords |-> <<>>]
\* an entry on which many scoring signals fire; one keyword is capitalised
ChevronSigns ==
    [intervention |-> N_Chevron, context |-> X_Chevron,
     source |-> "IRC:67", impact |-> "guides drivers",
     keywords |-> <<W_Curve, W_night, W_fatal, W_crash, W_rural, W_highway>>]
\* an entry without the optional keys "keywords" and "context"
NightLighting ==
    [intervention |-> N_Light]

\* "Speed cameras" / "highway": a weak match of the spec's scenario A
N_Cameras == <<"S","p","e","e","d"," ","c","a","m","e","r","a","s">>
SpeedCameras ==
    [intervention |-> N_Cameras, context |-> W_highway,
     source |-> "IRC:SP:88", impact |-> "deters speeding",
     keywords |-> <<W_speeding>>]
\* the night-lighting entry with all five keys of the catalog schema
HighwayLighting ==
    [intervention |-> N_Light, context |-> W_highway,
     source |-> "IRC:SP:73", impact |-> "improves visibility",
     keywords |-> <<W_night>>]
RecordPool == {RumbleStrips, SpeedHumps, ChevronSigns, NightLighting}

RECURSIVE SeqsUpTo(_, _)
SeqsUpTo(S, n) ==
    IF n = 0 THEN {<<>>}
    ELSE LET shorter == SeqsUpTo(S, n - 1)
         IN  shorter \cup {Append(c, r) : c \in shorter, r \in S}

\* the catalogs a catalog file can hold: any sequence of pool records
Catalogs == SeqsUpTo(RecordPool, MaxCatalog)

(***************************************************************************)
(* src/main.py, RoadSafetyRAG.search_interventions                          *)
(***************************************************************************)
\* a matcher whose context bonus is per word: +1 for every long query word found
LexicalScorePerWord(intervention, query_lower) ==
    LET keywords == Get(intervention, "keywords", <<>>)
        context == Lower(Get(intervention, "context", <<>>))
        intervention_name == Lower(Get(intervention, "intervention", <<>>))
        words == Split(query_lower)
        LongIn(text) == {i \in 1..Len(words) : Len(words[i]) > 3 /\ In(words[i], text)}
    IN  2 * CountIn([i \in 1..Len(keywords) |-> Lower(keywords[i])], query_lower)
        + Cardinality(LongIn(context))
        + Cardinality(LongIn(intervention_name))

\* a matcher whose keyword bonus is flat: +2 when any keyword is found
LexicalScoreKeywordOnce(intervention, query_lower) ==
    LET keywords == Get(intervention, "keywords", <<>>)
        context == Lower(Get(intervention, "context", <<>>))
        intervention_name == Lower(Get(intervention, "intervention", <<>>))
        words == Split(query_lower)
    IN  (IF \E i \in 1..Len(keywords) : In(Lower(keywords[i]), query_lower)
         THEN 2 ELSE 0)
        + (IF AnyLongWordIn(words, context) THEN 1 ELSE 0)
        + (IF AnyLongWordIn(words, intervention_name) THEN 1 ELSE 0)

\* the score the loop body gives one record (lines 154-170)
LexicalScore(intervention, query_lower) ==
    LET keywords == Get(intervention, "keywords", <<>>)
        context == Lower(Get(intervention, "context", <<>>))
        intervention_name == Lower(Get(intervention, "intervention", <<>>))
        words == Split(query_lower)
    IN  2 * CountIn([i \in 1..Len(keywords) |-> Lower(keywords[i])], query_lower)
        + (IF AnyLongWordIn(words, context) THEN 1 ELSE 0)
        + (IF AnyLongWordIn(words, intervention_name) THEN 1 ELSE 0)

\* a matcher that keeps the records of score 0
RECURSIVE ScoredFromKeepingZero(_, _, _)
ScoredFromKeepingZero(catalog, query_lower, i) ==
    IF i > Len(catalog) THEN <<>>
    ELSE <<<<LexicalScore(catalog[i], query_lower), i>>>>
         \o ScoredFromKeepingZero(catalog, query_lower, i + 1)

\* scored_interventions before the sort: <<score, position>> of every record
\* with score > 0, in catalog order (lines 151-173)
RECURSIVE ScoredFrom(_, _, _)
ScoredFrom(catalog, query_lower, i) ==
    IF i > Len(catalog) THEN <<>>
    ELSE LET score == LexicalScore(catalog[i], query_lower)
             rest == ScoredFrom(catalog, query_lower, i + 1)
         IN  IF score > 0 THEN <<<<score, i>>>> \o rest ELSE rest

\* a sort that is not stable: an element goes before the equal ones
InsertPointUnstable(sorted, x) ==
    Cardinality({j \in 1..Len(sorted) : sorted[j][1] > x[1]})

\* where list.sort(key=score, reverse=True) puts an element among the already
\* sorted ones: after every element whose key is not smaller (the sort is stable)
InsertPoint(sorted, x) ==
    Cardinality({j \in 1..Len(sorted) : sorted[j][1] >= x[1]})

\* list.sort(key=lambda x: x[0], reverse=True) (line 176)
RECURSIVE SortByScoreDesc(_)
SortByScoreDesc(s) ==
    IF s = <<>> THEN <<>>
    ELSE LET sorted == SortByScoreDesc(SubSeq(s, 1, Len(s) - 1))
             x == s[Len(s)]
             p == InsertPoint(sorted, x)
         IN  SubSeq(sorted, 1, p) \o <<x>> \o SubSeq(sorted, p + 1, Len(sorted))

\* search_interventions(query, top_k): the returned records, as positions of
\* self.interventions (the returned dicts are the catalog's own objects)
search_interventions(catalog, query, top_k) ==
    LET scored == SortByScoreDesc(ScoredFrom(catalog, Lower(query), 1))
        top == SubSeq(scored, 1, Min(top_k, Len(scored)))
    IN  [j \in 1..Len(top) |-> top[j][2]]

(***************************************************************************)
(* src/utils.py, calculate_intervention_score                               *)
(***************************************************************************)
high_priority_keywords ==
    <<W_blackspot, W_fatal, W_death, W_crash, W_accident, W_emergency, W_urgent>>
medium_keywords ==
    <<W_pedestrian, W_school, W_intersection, W_curve, W_night, W_visibility>>

BaseScore == 50
HighBonus == 20
MediumBonus == 5
KeywordBonus == 3
ContextBonus == 2
ScoreFloor == 1
ScoreCeiling == 100

\* the query words of line 76: the distinct words longer than 3 characters
ContextWords(query_lower) ==
    LET words == Split(query_lower)
    IN  {words[i] : i \in {j \in 1..Len(words) : Len(words[j]) > 3}}

\* a scorer that compares the whole query with each high-priority keyword
HighPriorityBonusWholeQuery(query_lower) ==
    IF \E i \in 1..Len(high_priority_keywords) :
           high_priority_keywords[i] = query_lower
    THEN HighBonus ELSE 0

\* a scorer that adds 20 for every high-priority keyword found in the query
HighPriorityBonusPerTerm(query_lower) ==
    CountIn(high_priority_keywords, query_lower) * HighBonus

\* lines 59-62: 20 once, at the first high-priority keyword found in the query
HighPriorityBonus(query_lower) ==
    IF \E i \in 1..Len(high_priority_keywords) :
           In(high_priority_keywords[i], query_lower)
    THEN HighBonus ELSE 0

\* a scorer that counts the medium-priority keywords as one when any is found
MediumMatchesOnce(query_lower) ==
    IF CountIn(medium_keywords, query_lower) > 0 THEN 1 ELSE 0

\* line 66: the medium-priority keywords found in the query
MediumMatches(query_lower) == CountIn(medium_keywords, query_lower)

\* lines 70-71: the intervention's keywords found, as written, in the query
KeywordMatches(intervention, query_lower) ==
    CountIn(Get(intervention, "keywords", <<>>), query_lower)

\* a scorer that counts every occurrence of a long query word found in the context
ContextMatchesPerOccurrence(intervention, query_lower) ==
    LET context == Lower(Get(intervention, "context", <<>>))
        words == Split(query_lower)
    IN  Cardinality({i \in 1..Len(words) : Len(words[i]) > 3 /\ In(words[i], context)})
\* lines 75-77: the distinct long query words found in the lower-cased context
ContextMatches(intervention, query_lower) ==
    LET context == Lower(Get(intervention, "context", <<>>))
    IN  Cardinality({w \in ContextWords(query_lower) : In(w, context)})

\* the score before the clamp (lines 54-78)
RawScore(intervention, query) ==
    LET query_lower == Lower(query)
    IN  BaseScore
        + HighPriorityBonus(query_lower)
        + MediumMatches(query_lower) * MediumBonus
        + KeywordMatches(intervention, query_lower) * KeywordBonus
        + ContextMatches(intervention, query_lower) * ContextBonus

\* a scorer that forgets the upper clamp
ClampFloorOnly(score) == Max(ScoreFloor, score)

\* score = min(100, max(1, score)) (line 81)
Clamp(score) == Min(ScoreCeiling, Max(ScoreFloor, score))

calculate_intervention_score(intervention, query) ==
    Clamp(RawScore(intervention, query))

(***************************************************************************)
(* src/utils.py, get_score_color and get_score_color_hex, and the display  *)
(* of a score in src/app.py.                                               *)
(***************************************************************************)
\* the indicators of lines 87, 89, 91, by their code points
GreenIcon == "U+1F7E2"
YellowIcon == "U+1F7E1"
RedIcon == "U+1F534"

HighPriorityFrom == 80
ModerateFrom == 50

\* an indicator that is yellow only above the base score
get_score_color_above_base(score) ==
    IF score >= HighPriorityFrom THEN GreenIcon
    ELSE IF score > ModerateFrom THEN YellowIcon
    ELSE RedIcon

\* get_score_color (lines 84-91)
get_score_color(score) ==
    IF score >= HighPriorityFrom THEN GreenIcon
    ELSE IF score >= ModerateFrom THEN YellowIcon
    ELSE RedIcon

\* get_score_color_hex (lines 93-100)
get_score_color_hex(score) ==
    IF score >= HighPriorityFrom THEN "#28a745"
    ELSE IF score >= ModerateFrom THEN "#ffc107"
    ELSE "#dc3545"

\* color_icon and color_hex of src/app.py lines 528-530
ScoreBadge(score) ==
    [color_icon |-> get_score_color(score), color_hex |-> get_score_color_hex(score)]

\* the badges of the matched interventions (src/app.py lines 526-530): a
\* record without a priority_score is shown with 50
ScoreBadges(matched_interventions) ==
    [j \in 1..Len(matched_interventions) |->
        ScoreBadge(Get(matched_interventions[j], "priority_score", 50))]

(***************************************************************************)
(* The corpus directory and the persisted index.                           *)
(***************************************************************************)
PdfNames == {"a.pdf", "b.pdf"}

\* the chunks PyPDFLoader and the text splitter produce for a readable file:
\* content only, each tagged with its file name (lines 104-109, 115)
DocsOf(name) ==
    IF name = "a.pdf"
    THEN <<[source |-> "a.pdf", page_content |-> "a1"],
           [source |-> "a.pdf", page_content |-> "a2"]>>
    ELSE <<[source |-> "b.pdf", page_content |-> "b1"]>>

\* the embedding model: a deterministic function of the text alone
Embed(text) ==
    CASE text = "a1" -> 1
      [] text = "a2" -> 4
      [] text = "b1" -> 1
      [] text = "pedestrian safety" -> 2
      [] OTHER -> 5

RetrievalQueries == {"pedestrian safety", "sharp curve"}

RECURSIVE NoDupSeqs(_, _)
NoDupSeqs(S, n) ==
    IF n = 0 THEN {<<>>}
    ELSE LET shorter == NoDupSeqs(S, n - 1)
         IN  shorter \cup
             UNION {{Append(c, x) : x \in {y \in S : \A i \in 1..Len(c) : c[i] # y}} :
                        c \in shorter}

\* a directory listing: the PDF files in the order glob yields them, each
\* readable by PyPDFLoader or not
Listings ==
    {[i \in 1..Len(names) |-> [name |-> names[i], readable |-> flags[i]]] :
        names \in NoDupSeqs(PdfNames, Cardinality(PdfNames)),
        flags \in [1..Cardinality(PdfNames) -> BOOLEAN]}

DataDirs ==
    {[exists |-> FALSE, pdfs |-> <<>>]} \cup
    {[exists |-> TRUE, pdfs |-> l] : l \in Listings}

\* the states of chroma_db a start can find: no directory, an empty one, or
\* an index left by an earlier run (possibly unreadable)
ChromaDbs ==
    {[dir |-> "missing", records |-> <<>>, corrupt |-> FALSE],
     [dir |-> "empty", records |-> <<>>, corrupt |-> FALSE]} \cup
    {[dir |-> "files", records |-> r, corrupt |-> c] :
        r \in {<<>>, DocsOf("a.pdf"), DocsOf("b.pdf")}, c \in BOOLEAN}

(***************************************************************************)
(* src/main.py, RoadSafetyRAG: ingestion                                    *)
(***************************************************************************)
\* get_pdf_files (lines 87-92): the listing, or [] for a missing directory
get_pdf_files(dir) == IF ~dir.exists THEN <<>> ELSE dir.pdfs

\* a loop that gives up at the first file that raises
RECURSIVE LoadAllStopAtError(_, _)
LoadAllStopAtError(pdf_files, i) ==
    IF i > Len(pdf_files) \/ ~pdf_files[i].readable THEN <<>>
    ELSE DocsOf(pdf_files[i].name) \o LoadAllStopAtError(pdf_files, i + 1)
\* the loop of process_pdfs (lines 102-112): a file that raises is skipped
RECURSIVE LoadAll(_, _)
LoadAll(pdf_files, i) ==
    IF i > Len(pdf_files) THEN <<>>
    ELSE (IF pdf_files[i].readable THEN DocsOf(pdf_files[i].name) ELSE <<>>)
         \o LoadAll(pdf_files, i + 1)

\* process_pdfs (lines 94-116)
process_pdfs(dir) ==
    LET pdf_files == get_pdf_files(dir)
    IN  IF pdf_files = <<>> THEN <<>> ELSE LoadAll(pdf_files, 1)

(***************************************************************************)
(* The vector store library, as main.py uses it.                           *)
(***************************************************************************)
\* Chroma.from_documents(documents, persist_directory) (lines 128-132): opens
\* the directory's collection, creating it when there is none, and adds one
\* record per document under a fresh id
from_documents(db, documents) ==
    [dir |-> "files", records |-> db.records \o documents, corrupt |-> db.corrupt]

\* where similarity_search puts a record among the nearer ones: after every
\* record that is at most as far (equally near records keep insertion order)
NearPoint(sorted, x) ==
    Cardinality({j \in 1..Len(sorted) : sorted[j][1] <= x[1]})

RECURSIVE NearestFirst(_)
NearestFirst(s) ==
    IF s = <<>> THEN <<>>
    ELSE LET sorted == NearestFirst(SubSeq(s, 1, Len(s) - 1))
             x == s[Len(s)]
             p == NearPoint(sorted, x)
         IN  SubSeq(sorted, 1, p) \o <<x>> \o SubSeq(sorted, p + 1, Len(sorted))

Distance(a, b) == IF a >= b THEN a - b ELSE b - a

\* vectorstore.similarity_search(query, k) (line 186): the k nearest records
similarity_search(db, query, k) ==
    LET e == Embed(query)
        ranked == NearestFirst([i \in 1..Len(db.records) |->
                      <<Distance(e, Embed(db.records[i].page_content)), i>>])
        top == SubSeq(ranked, 1, Min(k, Len(ranked)))
    IN  [j \in 1..Len(top) |-> db.records[top[j][2]]]

\* a retrieval that opens the persisted index itself when the handle is unset
retrieve_relevant_chunks_lazy_open(vs, db, query, top_k) ==
    IF db.corrupt
    THEN [raised |-> FALSE, docs |-> <<>>]
    ELSE [raised |-> FALSE, docs |-> similarity_search(db, query, top_k)]

(***************************************************************************)
(* src/main.py, RoadSafetyRAG.retrieve_relevant_chunks (lines 179-190)      *)
(***************************************************************************)
retrieve_relevant_chunks(vs, db, query, top_k) ==
    IF vs = "None" THEN [raised |-> FALSE, docs |-> <<>>]
    ELSE IF db.corrupt
         THEN [raised |-> FALSE, docs |-> <<>>]     \* except Exception: return []
         ELSE [raised |-> FALSE, docs |-> similarity_search(db, query, top_k)]

(***************************************************************************)
(* src/main.py, RoadSafetyRAG.build_knowledge_base (lines 118-146)          *)
(***************************************************************************)
\* a condition that takes any existing directory, even an empty one, for an index
TakesRebuildBranchAnyDir(force_rebuild, db) ==
    force_rebuild \/ db.dir = "missing"

\* a condition that sends every call to the rebuild branch
TakesRebuildBranchAlways(force_rebuild, db) == TRUE
\* the condition of line 120
TakesRebuildBranch(force_rebuild, db) ==
    force_rebuild \/ db.dir = "missing" \/ db.dir = "empty"

NoCall == [op |-> "none"]
NotBuilt == [ret |-> "none", processed |-> FALSE, embedded |-> <<>>]
NoChunks == [raised |-> FALSE, docs |-> <<>>]

\* no generate_response call made, no rebuild in progress, no search made by
\* a second session
NoResult == [ret |-> "none"]
NoRebuild == [stage |-> "idle", pending |-> <<>>, old |-> <<>>, new |-> <<>>]
NoSeen == [during |-> FALSE, records |-> <<>>, old |-> <<>>, new |-> <<>>]

\* a rebuild branch without the `if not documents: return False` of line 124
RebuildBranchNoCheck(dir, db, vs) ==
    LET documents == process_pdfs(dir)
    IN  IF db.corrupt
        THEN [ret |-> "raise", processed |-> TRUE, embedded |-> documents,
              vectorstore |-> vs, chroma_db |-> db]
        ELSE [ret |-> "True", processed |-> TRUE, embedded |-> documents,
              vectorstore |-> "Chroma", chroma_db |-> from_documents(db, documents)]

\* a rebuild branch that drops the handle when the corpus yields no chunk
RebuildBranchDropsHandle(dir, db, vs) ==
    LET documents == process_pdfs(dir)
    IN  IF documents = <<>>
        THEN [ret |-> "False", processed |-> TRUE, embedded |-> <<>>,
              vectorstore |-> "None", chroma_db |-> db]
        ELSE IF db.corrupt
        THEN [ret |-> "raise", processed |-> TRUE, embedded |-> documents,
              vectorstore |-> vs, chroma_db |-> db]
        ELSE [ret |-> "True", processed |-> TRUE, embedded |-> documents,
              vectorstore |-> "Chroma", chroma_db |-> from_documents(db, documents)]
\* the rebuild branch, lines 121-134: what it returns, what it hands to the
\* embedder, and the handle and the index it leaves
RebuildBranch(dir, db, vs) ==
    LET documents == process_pdfs(dir)
    IN  IF documents = <<>>
        THEN [ret |-> "False", processed |-> TRUE, embedded |-> <<>>,
              vectorstore |-> vs, chroma_db |-> db]
        ELSE IF db.corrupt
        THEN \* Chroma.from_documents raises; nothing catches it
             [ret |-> "raise", processed |-> TRUE, embedded |-> documents,
              vectorstore |-> vs, chroma_db |-> db]
        ELSE [ret |-> "True", processed |-> TRUE, embedded |-> documents,
              vectorstore |-> "Chroma", chroma_db |-> from_documents(db, documents)]

\* a load branch that adds the corpus to the index it opens
LoadBranchReembeds(dir, db, vs) ==
    IF db.corrupt
    THEN [ret |-> "False", processed |-> FALSE, embedded |-> <<>>,
          vectorstore |-> vs, chroma_db |-> db]
    ELSE [ret |-> "True", processed |-> FALSE, embedded |-> <<>>,
          vectorstore |-> "Chroma",
          chroma_db |-> from_documents(db, process_pdfs(dir))]

\* the load branch, lines 135-146
LoadBranch(dir, db, vs) ==
    IF db.corrupt
    THEN \* Chroma(persist_directory) raises; except Exception: return False
         [ret |-> "False", processed |-> FALSE, embedded |-> <<>>,
          vectorstore |-> vs, chroma_db |-> db]
    ELSE [ret |-> "True", processed |-> FALSE, embedded |-> <<>>,
          vectorstore |-> "Chroma", chroma_db |-> db]

build_knowledge_base(force_rebuild) ==
    LET out == IF TakesRebuildBranch(force_rebuild, chroma_db)
               THEN RebuildBranch(data_dir, chroma_db, vectorstore)
               ELSE LoadBranch(data_dir, chroma_db, vectorstore)
    IN  /\ Len(out.chroma_db.records) <= MaxRecords
        /\ call' = [op |-> "build_knowledge_base", force_rebuild |-> force_rebuild,
                    pdfs |-> data_dir.pdfs, db |-> chroma_db, vs |-> vectorstore]
        /\ built' = [ret |-> out.ret, processed |-> out.processed,
                     embedded |-> out.embedded]
        /\ vectorstore' = out.vectorstore
        /\ chroma_db' = out.chroma_db
        \* get_pdf_files creates a missing DATA_DIR (line 90)
        /\ data_dir' = IF out.processed THEN [data_dir EXCEPT !.exists = TRUE]
                       ELSE data_dir
        /\ ever_ready' = (ever_ready \/ out.ret = "True")
        /\ UNCHANGED <<chunks, matched, priority>>

BuildKnowledgeBase ==
    /\ \E force_rebuild \in BOOLEAN : build_knowledge_base(force_rebuild)
    /\ UNCHANGED <<interventions, appVars, sharedVars>>

RetrieveRelevantChunks ==
    \E query \in RetrievalQueries, top_k \in 1..MaxTopK :
        /\ call' = [op |-> "retrieve_relevant_chunks", query |-> query, top_k |-> top_k]
        /\ chunks' = retrieve_relevant_chunks(vectorstore, chroma_db, query, top_k)
        /\ UNCHANGED <<interventions, vectorstore, data_dir, chroma_db, built,
                       matched, priority, ever_ready, appVars, sharedVars>>

(***************************************************************************)
(* The corpus directory changes under the service: a PDF is saved into it  *)
(* (src/app.py lines 258-266) or removed from it.                          *)
(***************************************************************************)
SavePdf ==
    \E name \in PdfNames, readable \in BOOLEAN :
        LET file == [name |-> name, readable |-> readable]
            at == {i \in 1..Len(data_dir.pdfs) : data_dir.pdfs[i].name = name}
        IN  /\ data_dir' =
                  [exists |-> TRUE,
                   pdfs |-> IF at = {} THEN Append(data_dir.pdfs, file)
                            ELSE [data_dir.pdfs EXCEPT ![CHOOSE i \in at : TRUE] = file]]
            /\ data_dir' # data_dir
            /\ UNCHANGED <<interventions, vectorstore, chroma_db, call, built,
                           chunks, matched, priority, ever_ready, appVars, sharedVars>>

RemovePdf ==
    \E i \in 1..Len(data_dir.pdfs) :
        /\ data_dir' = [data_dir EXCEPT !.pdfs =
               SubSeq(data_dir.pdfs, 1, i - 1) \o
               SubSeq(data_dir.pdfs, i + 1, Len(data_dir.pdfs))]
        /\ UNCHANGED <<interventions, vectorstore, chroma_db, call, built,
                       chunks, matched, priority, ever_ready, appVars, sharedVars>>

(***************************************************************************)
(* Calls of the catalog matcher and of the scorer.                         *)
(***************************************************************************)
SearchInterventions ==
    \E query \in Queries, top_k \in 1..MaxTopK :
        /\ call' = [op |-> "search_interventions", query |-> query, top_k |-> top_k]
        /\ matched' = search_interventions(interventions, query, top_k)
        /\ priority' = 0
        /\ badge' = <<>>
        /\ UNCHANGED <<interventions, vectorstore, data_dir, chroma_db, built, chunks,
                       ever_ready, catalog_file, rag_system, kb_built, result,
                       groq_requests, sharedVars>>

CalculateInterventionScore ==
    \E intervention \in RecordPool, query \in Queries :
        /\ call' = [op |-> "calculate_intervention_score",
                    intervention |-> intervention, query |-> query]
        /\ priority' = calculate_intervention_score(intervention, query)
        /\ matched' = <<>>
        /\ badge' = <<>>
        /\ UNCHANGED <<interventions, vectorstore, data_dir, chroma_db, built, chunks,
                       ever_ready, catalog_file, rag_system, kb_built, result,
                       groq_requests, sharedVars>>

\* the display of a score the scorer returned (src/app.py lines 527-530)
ShowScore ==
    /\ call.op = "calculate_intervention_score"
    /\ badge = <<>>
    /\ badge' = <<ScoreBadge(priority)>>
    /\ UNCHANGED <<interventions, vectorstore, data_dir, chroma_db, call, built,
                   chunks, matched, priority, ever_ready, catalog_file, rag_system,
                   kb_built, result, groq_requests, sharedVars>>

(***************************************************************************)
(* src/main.py, GroqLLM.__call__ (lines 42-56)                              *)
(***************************************************************************)
\* what one request to the text-generation service can end in
ServiceOutcomes == {"ok", "transport", "auth", "quota"}

\* a wrapper that lets the exception of a failed request through
GroqLLM_call_reraise(outcome) ==
    IF outcome = "ok"
    THEN [raised |-> FALSE, requests |-> 1, text |-> "recommendation"]
    ELSE [raised |-> TRUE, requests |-> 1, text |-> ""]

\* a wrapper that sends a failed request a second time
GroqLLM_call_retry(outcome) ==
    IF outcome = "ok"
    THEN [raised |-> FALSE, requests |-> 1, text |-> "recommendation"]
    ELSE [raised |-> FALSE, requests |-> 2,
          text |-> "Error calling Groq API: " \o outcome]

\* one chat.completions.create request; its content on success, and on any
\* exception the string f"Error calling Groq API: {str(e)}"
GroqLLM_call(outcome) ==
    IF outcome = "ok"
    THEN [raised |-> FALSE, requests |-> 1, text |-> "recommendation"]
    ELSE [raised |-> FALSE, requests |-> 1,
          text |-> "Error calling Groq API: " \o outcome]

(***************************************************************************)
(* src/main.py, RoadSafetyRAG.generate_response (lines 192-254)             *)
(***************************************************************************)
\* the default top_k of search_interventions (line 148) and of
\* retrieve_relevant_chunks (line 179)
SearchTopK == 3
RetrieveTopK == 4

\* the text of a query, as the embedder receives it
QueryText(query) ==
    CASE query = Q_ScenarioA -> "speeding rural highway at night"
      [] query = Q_ScenarioB -> "fatal crash blackspot"
      [] query = Q_Urgent -> "Fatal crash Night curve rural highway"
      [] query = Q_NightB -> "night fatal crash blackspot"
      [] query = Q_Speed -> "speed bump"
      [] query = Q_Curve -> "sharp curve"
      [] query = Q_Repeat -> "rural rural"
      [] OTHER -> "pedestrian safety"

\* the keys the prompt reads with inv[...] (line 208)
PromptKeys == {"intervention", "context", "source"}

\* a scoring step that attaches the base score to every matched record
WithBasePriorityScore(inv, query) ==
    ("priority_score" :> BaseScore) @@ inv

\* inv_copy = inv.copy(); inv_copy["priority_score"] = ... (lines 244-245)
WithPriorityScore(inv, query) ==
    ("priority_score" :> calculate_intervention_score(inv, query)) @@ inv

\* a scoring loop that writes priority_score into the catalog's own records
ScoredInPlace(catalog, positions, query) ==
    LET at == {positions[j] : j \in 1..Len(positions)}
        after == [i \in 1..Len(catalog) |->
                     IF i \in at THEN WithPriorityScore(catalog[i], query)
                     ELSE catalog[i]]
    IN  [scored_interventions |-> [j \in 1..Len(positions) |-> after[positions[j]]],
         interventions |-> after]

\* the scoring loop of lines 242-246: the returned records are copies, the
\* catalog's own records are left as they are
ScoredCopies(catalog, positions, query) ==
    [scored_interventions |->
        [j \in 1..Len(positions) |-> WithPriorityScore(catalog[positions[j]], query)],
     interventions |-> catalog]

\* generate_response(query) on an object with the given catalog and handle,
\* the request to the service ending in outcome: what the call returns, the
\* requests it sends, and the catalog it leaves
generate_response(catalog, vs, db, query, outcome) ==
    LET relevant_chunks ==
            retrieve_relevant_chunks(vs, db, QueryText(query), RetrieveTopK).docs
        positions == search_interventions(catalog, query, SearchTopK)
        llm == GroqLLM_call(outcome)
        scoring == ScoredCopies(catalog, positions, query)
    IN  IF \E j \in 1..Len(positions) :
               ~(PromptKeys \subseteq DOMAIN catalog[positions[j]])
        THEN \* KeyError while the prompt is built, before the request
             [ret |-> "raise", requests |-> 0, interventions |-> catalog]
        ELSE IF llm.raised
        THEN [ret |-> "raise", requests |-> llm.requests, interventions |-> catalog]
        ELSE [ret |-> "return",
              requests |-> llm.requests,
              interventions |-> scoring.interventions,
              response |-> llm.text,
              matched_interventions |-> scoring.scored_interventions,
              sources |-> {relevant_chunks[j].source : j \in 1..Len(relevant_chunks)},
              relevant_chunks |-> relevant_chunks,
              query |-> query]

(***************************************************************************)
(* src/main.py, RoadSafetyRAG.load_interventions (lines 79-85)              *)
(***************************************************************************)
\* the catalog files a start can find: none, a JSON array of records, or a
\* file json.load cannot parse
CatalogFiles ==
    {[state |-> "missing"], [state |-> "malformed"],
     [state |-> "valid", content |-> <<RumbleStrips, SpeedHumps>>]}

\* catalog files of fewer and of more records than generate_response asks
\* the matcher for
LongCatalogFiles ==
    {[state |-> "valid", content |-> <<RumbleStrips, SpeedHumps>>],
     [state |-> "valid",
      content |-> <<SpeedCameras, HighwayLighting, RumbleStrips, ChevronSigns>>]}

\* a loader that takes an unparsable file for an empty catalog
load_interventions_lenient(file) ==
    IF file.state = "valid"
    THEN [raised |-> "none", interventions |-> file.content]
    ELSE [raised |-> "none", interventions |-> <<>>]

\* json.load raises JSONDecodeError on an unparsable file and nothing catches
\* it; a missing file gives the empty catalog
load_interventions(file) ==
    CASE file.state = "missing" -> [raised |-> "none", interventions |-> <<>>]
      [] file.state = "valid" -> [raised |-> "none", interventions |-> file.content]
      [] file.state = "malformed" ->
             [raised |-> "JSONDecodeError", interventions |-> <<>>]

(***************************************************************************)
(* src/app.py: one session of the application.                             *)
(***************************************************************************)
\* a session that takes any build_knowledge_base call that returns for a success
KbBuiltAfterAnyReturn(was_built, ret) == was_built \/ ret # "raise"

\* a session whose flag follows the last build_knowledge_base call
KbBuiltAfterLastReturn(was_built, ret) == ret = "True"
\* kb_built after a build_knowledge_base call: set when the call returned True
\* (lines 129-130, 245-247, 273-275), and never reset
KbBuiltAfter(was_built, ret) == was_built \/ ret = "True"

\* initialize_rag (lines 123-132), run at every script run (line 206): while
\* the session has no service object, construct one and build or load the
\* knowledge base
InitializeRag ==
    /\ rag_system = "None"
    /\ LET loaded == load_interventions(catalog_file)
       IN  IF loaded.raised # "none"
           THEN \* RoadSafetyRAG() raises: rag_system is not assigned
                /\ call' = [op |-> "initialize_rag", raised |-> loaded.raised]
                /\ UNCHANGED <<interventions, vectorstore, data_dir, chroma_db, built,
                               chunks, matched, priority, ever_ready, rag_system,
                               kb_built>>
           ELSE /\ rag_system' = "object"
                /\ interventions' = loaded.interventions
                /\ build_knowledge_base(FALSE)
                /\ kb_built' = KbBuiltAfter(kb_built, built'.ret)
    /\ UNCHANGED <<catalog_file, result, groq_requests, badge, sharedVars>>

\* the buttons "Rebuild Knowledge Base" (lines 241-249) and "Process Uploaded
\* PDFs" (lines 270-276): a forced rebuild; kb_built is set when it succeeds
RebuildKnowledgeBase ==
    /\ rag_system = "object"
    /\ build_knowledge_base(TRUE)
    /\ kb_built' = KbBuiltAfter(kb_built, built'.ret)
    /\ UNCHANGED <<interventions, catalog_file, rag_system, result, groq_requests,
                   badge, sharedVars>>

\* the queries typed into the application: one that matches a record of
\* the catalog and one that matches none
AppQueries == {Q_ScenarioA, Q_ScenarioB}

\* the button "Get Recommendations" with a query typed in (lines 481-492)
GetRecommendations ==
    \E query \in AppQueries, outcome \in ServiceOutcomes :
        /\ rag_system = "object"
        /\ IF ~kb_built
           THEN /\ call' = [op |-> "get_recommendations", blocked |-> TRUE,
                            query |-> query]
                /\ badge' = <<>>
                /\ UNCHANGED <<interventions, result, groq_requests>>
           ELSE \E out \in {generate_response(interventions, vectorstore, chroma_db,
                                                query, outcome)} :
                    /\ call' = [op |-> "generate_response", query |-> query,
                                outcome |-> outcome, catalog |-> interventions,
                                vs |-> vectorstore]
                    /\ interventions' = out.interventions
                    /\ groq_requests' = out.requests
                    /\ result' = [f \in DOMAIN out \ {"requests", "interventions"}
                                     |-> out[f]]
                    \* the display of the matches (lines 526-530); an
                    \* exception is reported instead (lines 490-492)
                    /\ badge' = IF out.ret = "return"
                                THEN ScoreBadges(out.matched_interventions)
                                ELSE <<>>
        /\ UNCHANGED <<vectorstore, data_dir, chroma_db, built, chunks, matched,
                       priority, ever_ready, catalog_file, rag_system, kb_built,
                       sharedVars>>

(***************************************************************************)
(* Two sessions of the application on one persisted index directory: each  *)
(* session holds its own RoadSafetyRAG object (app.py line 127), all of    *)
(* them open CHROMA_DB_DIR (main.py line 31). Nothing in main.py or app.py *)
(* locks the directory or builds into another one, and                     *)
(* Chroma.from_documents adds the documents to the collection in batches,  *)
(* each batch a write of its own.                                          *)
(***************************************************************************)
\* the first session's build_knowledge_base(force_rebuild=True) up to the
\* call of Chroma.from_documents (lines 120-128)
StartRebuild ==
    /\ rebuild.stage = "idle"
    /\ LET documents == process_pdfs(data_dir)
       IN  /\ Len(chroma_db.records) + Len(documents) <= MaxRecords
           /\ call' = [op |-> "build_knowledge_base", force_rebuild |-> TRUE,
                       pdfs |-> data_dir.pdfs, db |-> chroma_db, vs |-> vectorstore]
           /\ data_dir' = [data_dir EXCEPT !.exists = TRUE]
           /\ IF documents = <<>>
              THEN /\ built' = [ret |-> "False", processed |-> TRUE, embedded |-> <<>>]
                   /\ UNCHANGED <<chroma_db, rebuild>>
              ELSE IF chroma_db.corrupt
              THEN /\ built' = [ret |-> "raise", processed |-> TRUE,
                                embedded |-> documents]
                   /\ UNCHANGED <<chroma_db, rebuild>>
              ELSE /\ built' = [ret |-> "none", processed |-> TRUE,
                                embedded |-> documents]
                   /\ chroma_db' = [chroma_db EXCEPT !.dir = "files"]
                   /\ rebuild' = [stage |-> "writing", pending |-> documents,
                                  old |-> chroma_db.records,
                                  new |-> from_documents(chroma_db, documents).records]
    /\ UNCHANGED <<interventions, vectorstore, chunks, matched, priority, ever_ready,
                   appVars, other_vectorstore, seen>>

\* Chroma.from_documents (lines 128-132) writes the next batch; after the
\* last one it returns, the handle is assigned and the call returns True
WriteBatch ==
    /\ rebuild.stage = "writing"
    /\ \E n \in 1..Len(rebuild.pending) :
           LET rest == SubSeq(rebuild.pending, n + 1, Len(rebuild.pending))
           IN  /\ chroma_db' = [chroma_db EXCEPT
                      !.records = chroma_db.records \o SubSeq(rebuild.pending, 1, n)]
               /\ IF rest = <<>>
                  THEN /\ rebuild' = NoRebuild
                       /\ vectorstore' = "Chroma"
                       /\ built' = [built EXCEPT !.ret = "True"]
                       /\ ever_ready' = TRUE
                  ELSE /\ rebuild' = [rebuild EXCEPT !.pending = rest]
                       /\ UNCHANGED <<vectorstore, built, ever_ready>>
    /\ UNCHANGED <<interventions, data_dir, call, chunks, matched, priority, appVars,
                   other_vectorstore, seen>>

\* the second session starts while an index directory is on disk:
\* build_knowledge_base() takes the load branch (lines 135-146)
OtherInitializeRag ==
    /\ other_vectorstore = "None"
    /\ ~TakesRebuildBranch(FALSE, chroma_db)
    /\ other_vectorstore' = LoadBranch(data_dir, chroma_db, other_vectorstore).vectorstore
    /\ other_vectorstore' # other_vectorstore
    /\ UNCHANGED <<interventions, vectorstore, data_dir, chroma_db, call, built, chunks,
                   matched, priority, ever_ready, appVars, rebuild, seen>>

\* the second session's retrieve_relevant_chunks (lines 179-190), at any time
OtherSearch ==
    \E query \in RetrievalQueries, top_k \in 1..MaxTopK :
        /\ other_vectorstore = "Chroma"
        /\ chunks' = retrieve_relevant_chunks(other_vectorstore, chroma_db, query, top_k)
        /\ seen' = [during |-> rebuild.stage = "writing",
                    records |-> chroma_db.records,
                    old |-> rebuild.old, new |-> rebuild.new]
        /\ UNCHANGED <<interventions, vectorstore, data_dir, chroma_db, call, built,
                       matched, priority, ever_ready, appVars, rebuild,
                       other_vectorstore>>

(***************************************************************************)
(* src/extract_interventions.py, InterventionExtractor: the extraction     *)
(* workflow that writes the catalog file.                                  *)
(***************************************************************************)
\* the most items one reply of the language model carries, and the most
\* records the replies of one run yield in all
MaxItems == 2

\* str.strip(): the string without its leading and trailing whitespace
RECURSIVE Strip(_)
Strip(s) ==
    IF s = <<>> THEN s
    ELSE IF Head(s) = " " THEN Strip(Tail(s))
    ELSE IF s[Len(s)] = " " THEN Strip(SubSeq(s, 1, Len(s) - 1))
    ELSE s

\* "SPEED HUMPS": the name of the speed-humps entry in another case, in an
\* item that has no other key
N_HumpsUpper == <<"S","P","E","E","D"," ","H","U","M","P","S">>
HumpsUpper == [intervention |-> N_HumpsUpper]
\* "Night lighting ": the name of the night-lighting entry with a trailing blank
N_LightPadded == <<"N","i","g","h","t"," ","l","i","g","h","t","i","n","g"," ">>
LightingPadded == [HighwayLighting EXCEPT !.intervention = N_LightPadded]
\* a record whose intervention name is the empty string
EmptyNamed == [SpeedHumps EXCEPT !.intervention = <<>>]

\* the items of the JSON array a reply parses to: objects, with or without
\* the key "intervention", or values that are no objects
RawItems ==
    {[is_dict |-> TRUE, value |-> v] :
        v \in {HumpsUpper, LightingPadded, EmptyNamed, [context |-> X_Humps]}}
    \cup {[is_dict |-> FALSE]}

\* the replies of the language model: text json.loads cannot parse, or a
\* JSON array of items
LlmReplies ==
    {[json |-> FALSE, items |-> <<>>]} \cup
    {[json |-> TRUE, items |-> items] : items \in SeqsUpTo(RawItems, MaxItems)}

\* inv_clean (lines 103-109): the five keys, with defaults for missing ones
Clean(inv) ==
    [intervention |-> Get(inv, "intervention", <<>>),
     context |-> Get(inv, "context", <<>>),
     source |-> Get(inv, "source", ""),
     impact |-> Get(inv, "impact", ""),
     keywords |-> Get(inv, "keywords", <<>>)]

\* the validation loop of lines 99-111: an item is kept, cleaned, when it is
\* an object with the key "intervention" and its name is not empty
RECURSIVE ValidInterventions(_)
ValidInterventions(items) ==
    IF items = <<>> THEN <<>>
    ELSE LET inv == Head(items)
         IN  (IF /\ inv.is_dict
                 /\ "intervention" \in DOMAIN inv.value
                 /\ Clean(inv.value).intervention # <<>>
              THEN <<Clean(inv.value)>> ELSE <<>>)
             \o ValidInterventions(Tail(items))

\* extract_from_text_chunks (lines 32-122) on a reply of the language model:
\* a reply json.loads cannot parse gives [] (lines 115-118)
extract_from_text_chunks(reply) ==
    IF reply.json THEN ValidInterventions(reply.items) ELSE <<>>

\* what extract_from_text_chunks can return, the language model replying as
\* it may
ExtractedLists == {extract_from_text_chunks(reply) : reply \in LlmReplies}

\* the name two records are compared by: inv["intervention"].lower().strip()
\* (lines 152, 163, 168)
NormalizedName(inv) == Strip(Lower(inv.intervention))

\* a merge loop that compares every new record with the existing names only
RECURSIVE MergeFromExistingOnly(_, _, _, _)
MergeFromExistingOnly(merged, existing_names, new, j) ==
    IF j > Len(new) THEN merged
    ELSE IF NormalizedName(new[j]) \notin existing_names
         THEN MergeFromExistingOnly(Append(merged, new[j]), existing_names, new, j + 1)
         ELSE MergeFromExistingOnly(merged, existing_names, new, j + 1)

\* the loop of lines 167-174 from the j-th new record on
RECURSIVE MergeFrom(_, _, _, _)
MergeFrom(merged, existing_names, new, j) ==
    IF j > Len(new) THEN merged
    ELSE LET new_name == NormalizedName(new[j])
         IN  IF new_name \notin existing_names
             THEN MergeFrom(Append(merged, new[j]), existing_names \cup {new_name},
                            new, j + 1)
             ELSE MergeFrom(merged, existing_names, new, j + 1)

\* merge_interventions (lines 160-176)
merge_interventions(existing, new) ==
    MergeFrom(existing, {NormalizedName(existing[i]) : i \in 1..Len(existing)}, new, 1)

\* extract_from_database (lines 124-158), extract_from_text_chunks returning
\* the given records for the chunks the query terms retrieve (the replies to
\* the query terms taken as one): those records without the ones whose
\* normalized name was seen before; no chunk retrieved, no request and no
\* record
extract_from_database(vs, db, extracted) ==
    IF retrieve_relevant_chunks(vs, db, "road safety intervention", 5).docs = <<>>
    THEN <<>>
    ELSE MergeFrom(<<>>, {}, extracted, 1)

\* run_extraction (lines 178-233) on a parsable or missing catalog file,
\* extract_from_text_chunks returning db_extracted for the chunks of the
\* database and pdf_extracted for those of the PDFs: the database it builds
\* or loads when the object has no handle, the records it extracts, and the
\* file it leaves
run_extraction(file, dir, db, vs, use_database, process_all_pdfs, db_extracted, pdf_extracted) ==
    LET existing_interventions == IF file.state = "missing" THEN <<>> ELSE file.content
        \* lines 197-198: build_knowledge_base() when there is no handle
        kb == IF use_database /\ vs = "None"
              THEN IF TakesRebuildBranch(FALSE, db)
                   THEN RebuildBranch(dir, db, vs) ELSE LoadBranch(dir, db, vs)
              ELSE [ret |-> "none", processed |-> FALSE, embedded |-> <<>>,
                    vectorstore |-> vs, chroma_db |-> db]
        directly == process_all_pdfs \/ ~use_database
        from_database ==
            IF use_database
            THEN extract_from_database(kb.vectorstore, kb.chroma_db, db_extracted)
            ELSE <<>>
        from_pdfs ==
            IF directly /\ process_pdfs(dir) # <<>>
            THEN pdf_extracted ELSE <<>>
        new_interventions == from_database \o from_pdfs
        stopped == kb.ret = "raise" \/ (use_database /\ kb.vectorstore = "None")
        after == [vectorstore |-> kb.vectorstore, chroma_db |-> kb.chroma_db,
                  dir_made |-> kb.processed \/ (~stopped /\ directly)]
    IN  IF stopped \/ new_interventions = <<>>
        THEN \* the exception of the build, `return` at line 203 or at line 217
             after @@ [wrote |-> FALSE, existing |-> existing_interventions,
                       new |-> IF stopped THEN <<>> ELSE new_interventions,
                       catalog_file |-> file]
        ELSE after @@ [wrote |-> TRUE, existing |-> existing_interventions,
                       new |-> new_interventions,
                       catalog_file |->
                           [state |-> "valid",
                            content |-> merge_interventions(existing_interventions,
                                                            new_interventions)]]

\* InterventionExtractor() (lines 27-30): constructs a RoadSafetyRAG, which
\* loads the catalog file
ConstructExtractor ==
    /\ rag_system = "None"
    /\ LET loaded == load_interventions(catalog_file)
       IN  IF loaded.raised # "none"
           THEN /\ call' = [op |-> "InterventionExtractor", raised |-> loaded.raised]
                /\ UNCHANGED <<interventions, rag_system>>
           ELSE /\ call' = [op |-> "InterventionExtractor", raised |-> "none"]
                /\ rag_system' = "object"
                /\ interventions' = loaded.interventions
    /\ UNCHANGED <<vectorstore, data_dir, chroma_db, built, chunks, matched, priority,
                   ever_ready, catalog_file, kb_built, result, groq_requests,
                   badge, sharedVars>>

\* the script ends (lines 252-256 run once per process): the next start
\* constructs a new extractor, with no handle and the catalog loaded anew
ExitScript ==
    /\ rag_system = "object"
    /\ call.op = "run_extraction"
    /\ call' = NoCall
    /\ rag_system' = "None"
    /\ vectorstore' = "None"
    /\ interventions' = <<>>
    /\ UNCHANGED <<data_dir, chroma_db, built, chunks, matched, priority, ever_ready,
                   catalog_file, kb_built, result, groq_requests, badge,
                   sharedVars>>

\* one run of run_extraction with the given flags, the language model
\* replying as it may to the requests of extract_from_text_chunks
RunExtraction ==
    \E use_database \in BOOLEAN, process_all_pdfs \in BOOLEAN :
    \E db_extracted \in IF use_database THEN ExtractedLists ELSE {<<>>},
       pdf_extracted \in IF process_all_pdfs \/ ~use_database THEN ExtractedLists
                         ELSE {<<>>} :
        /\ rag_system = "object"
        /\ Len(db_extracted) + Len(pdf_extracted) <= MaxItems
        /\ IF catalog_file.state = "malformed"
           THEN \* json.load raises at line 185
                /\ call' = [op |-> "run_extraction", raised |-> "JSONDecodeError",
                            wrote |-> FALSE]
                /\ UNCHANGED <<vectorstore, data_dir, chroma_db, ever_ready,
                               catalog_file>>
           ELSE \E run \in {run_extraction(catalog_file, data_dir, chroma_db,
                                           vectorstore, use_database,
                                           process_all_pdfs, db_extracted,
                                           pdf_extracted)} :
                    /\ call' = [op |-> "run_extraction", raised |-> "none",
                                wrote |-> run.wrote, existing |-> run.existing,
                                new |-> run.new]
                    /\ catalog_file' = run.catalog_file
                    /\ vectorstore' = run.vectorstore
                    /\ chroma_db' = run.chroma_db
                    /\ data_dir' = IF run.dir_made
                                   THEN [data_dir EXCEPT !.exists = TRUE]
                                   ELSE data_dir
                    /\ ever_ready' = (ever_ready \/ run.vectorstore = "Chroma")
        /\ UNCHANGED <<interventions, built, chunks, matched, priority, rag_system,
                       kb_built, result, groq_requests, badge, sharedVars>>
(***************************************************************************)
(* Specifications.                                                         *)
(***************************************************************************)
\* RoadSafetyRAG.__init__ (lines 62-77) and load_interventions (lines 79-85)
InitObject ==
    /\ vectorstore = "None"
    /\ call = NoCall
    /\ built = NotBuilt
    /\ chunks = NoChunks
    /\ matched = <<>>
    /\ priority = 0
    /\ ever_ready = FALSE

InitNoSession ==
    /\ rag_system = "object"
    /\ kb_built = FALSE
    /\ result = NoResult
    /\ groq_requests = 0
    /\ badge = <<>>
    /\ rebuild = NoRebuild
    /\ other_vectorstore = "None"
    /\ seen = NoSeen

\* the service object over any corpus directory and any persisted index
Init ==
    /\ InitObject
    /\ InitNoSession
    /\ catalog_file = [state |-> "valid", content |-> <<RumbleStrips, SpeedHumps>>]
    /\ interventions = <<RumbleStrips, SpeedHumps>>
    /\ data_dir \in DataDirs
    /\ chroma_db \in ChromaDbs

Next ==
    \/ BuildKnowledgeBase
    \/ RetrieveRelevantChunks
    \/ SavePdf
    \/ RemovePdf

Spec == Init /\ [][Next]_vars

\* a session of the application that starts over any catalog file, corpus
\* directory and persisted index
InitApp ==
    /\ InitObject
    /\ interventions = <<>>
    /\ catalog_file \in CatalogFiles
    /\ data_dir \in DataDirs
    /\ chroma_db \in ChromaDbs
    /\ rag_system = "None"
    /\ kb_built = FALSE
    /\ result = NoResult
    /\ groq_requests = 0
    /\ badge = <<>>
    /\ rebuild = NoRebuild
    /\ other_vectorstore = "None"
    /\ seen = NoSeen

NextApp ==
    \/ InitializeRag
    \/ RebuildKnowledgeBase
    \/ GetRecommendations

SpecApp == InitApp /\ [][NextApp]_vars

\* a session of the application in which PDFs are also uploaded: it starts
\* over no catalog file, a corpus directory that is missing or holds one
\* file, and no index, an empty index directory or an index left by an
\* earlier run
InitSession ==
    /\ InitObject
    /\ interventions = <<>>
    /\ catalog_file = [state |-> "missing"]
    /\ data_dir \in {[exists |-> FALSE, pdfs |-> <<>>],
                     [exists |-> TRUE, pdfs |-> <<[name |-> "a.pdf", readable |-> TRUE]>>]}
    /\ chroma_db \in {[dir |-> "missing", records |-> <<>>, corrupt |-> FALSE],
                      [dir |-> "empty", records |-> <<>>, corrupt |-> FALSE],
                      [dir |-> "files", records |-> DocsOf("b.pdf"), corrupt |-> FALSE]}
    /\ rag_system = "None"
    /\ kb_built = FALSE
    /\ result = NoResult
    /\ groq_requests = 0
    /\ badge = <<>>
    /\ rebuild = NoRebuild
    /\ other_vectorstore = "None"
    /\ seen = NoSeen

NextSession ==
    \/ InitializeRag
    \/ RebuildKnowledgeBase
    \/ SavePdf
    \/ GetRecommendations

SpecSession == InitSession /\ [][NextSession]_vars

\* a session of the application over a catalog of two or of four records,
\* a corpus directory that is missing or holds two files, and no index or
\* an index left by an earlier run
InitAnswer ==
    /\ InitObject
    /\ interventions = <<>>
    /\ catalog_file \in LongCatalogFiles
    /\ data_dir \in {[exists |-> FALSE, pdfs |-> <<>>],
                     [exists |-> TRUE,
                      pdfs |-> <<[name |-> "a.pdf", readable |-> TRUE],
                                 [name |-> "b.pdf", readable |-> TRUE]>>]}
    /\ chroma_db \in {[dir |-> "missing", records |-> <<>>, corrupt |-> FALSE],
                      [dir |-> "files", records |-> DocsOf("b.pdf"), corrupt |-> FALSE]}
    /\ rag_system = "None"
    /\ kb_built = FALSE
    /\ result = NoResult
    /\ groq_requests = 0
    /\ badge = <<>>
    /\ rebuild = NoRebuild
    /\ other_vectorstore = "None"
    /\ seen = NoSeen

NextAnswer ==
    \/ InitializeRag
    \/ RebuildKnowledgeBase
    \/ GetRecommendations

SpecAnswer == InitAnswer /\ [][NextAnswer]_vars

\* two sessions over any corpus directory and any persisted index
InitShared ==
    /\ InitObject
    /\ InitNoSession
    /\ catalog_file = [state |-> "valid", content |-> <<RumbleStrips, SpeedHumps>>]
    /\ interventions = <<RumbleStrips, SpeedHumps>>
    /\ data_dir \in DataDirs
    /\ chroma_db \in ChromaDbs

NextShared ==
    \/ StartRebuild
    \/ WriteBatch
    \/ OtherInitializeRag
    \/ OtherSearch

SpecShared == InitShared /\ [][NextShared]_vars

\* the matcher and the scorer over any catalog file
InitMatch ==
    /\ InitObject
    /\ InitNoSession
    /\ catalog_file \in {[state |-> "valid", content |-> c] : c \in Catalogs}
    /\ interventions = catalog_file.content
    /\ data_dir = [exists |-> FALSE, pdfs |-> <<>>]
    /\ chroma_db = [dir |-> "missing", records |-> <<>>, corrupt |-> FALSE]

NextMatch ==
    \/ SearchInterventions
    \/ CalculateInterventionScore
    \/ ShowScore

SpecMatch == InitMatch /\ [][NextMatch]_vars

\* the catalog files the extraction workflow can find: none, an unparsable
\* one, and arrays of records, one of them with a record of empty name
ExtractCatalogFiles ==
    {[state |-> "missing"], [state |-> "malformed"],
     [state |-> "valid", content |-> <<SpeedHumps>>],
     [state |-> "valid", content |-> <<HighwayLighting>>],
     [state |-> "valid", content |-> <<SpeedHumps, EmptyNamed>>]}

\* the extraction script started over a catalog file, a corpus directory and
\* a persisted index
InitExtract ==
    /\ InitObject
    /\ interventions = <<>>
    /\ catalog_file \in ExtractCatalogFiles
    /\ data_dir \in {[exists |-> FALSE, pdfs |-> <<>>],
                     [exists |-> TRUE, pdfs |-> <<[name |-> "a.pdf", readable |-> TRUE]>>]}
    /\ chroma_db \in {[dir |-> "missing", records |-> <<>>, corrupt |-> FALSE],
                      [dir |-> "files", records |-> DocsOf("b.pdf"), corrupt |-> FALSE],
                      [dir |-> "files", records |-> DocsOf("b.pdf"), corrupt |-> TRUE]}
    /\ rag_system = "None"
    /\ kb_built = FALSE
    /\ result = NoResult
    /\ groq_requests = 0
    /\ badge = <<>>
    /\ rebuild = NoRebuild
    /\ other_vectorstore = "None"
    /\ seen = NoSeen

NextExtract ==
    \/ ConstructExtractor
    \/ RunExtraction
    \/ ExitScript

SpecExtract == InitExtract /\ [][NextExtract]_vars

(***************************************************************************)
(* Properties of the scorer and the matcher, checked under SpecMatch.      *)
(***************************************************************************)
Scored == call.op = "calculate_intervention_score"
Searched == call.op = "search_interventions"

\* the positions search_interventions returned
Returned == {matched[j] : j \in 1..Len(matched)}

\* the lexical score of the catalog record at position i for the last query
ScoreAt(i) == LexicalScore(interventions[i], Lower(call.query))

\* C1: whatever the query and the record, calculate_intervention_score
\* returns an integer between 1 and 100.
C1_ScoreInRange ==
    Scored => priority \in 1..100

\* the signals add up to more than 100 and the score returned is 100
C1_Witness ==
    /\ Scored
    /\ RawScore(call.intervention, call.query) > 100
    /\ priority = 100

\* C2: the records search_interventions returns are in non-increasing order
\* of lexical score, and of two returned records with equal score the one
\* earlier in the catalog comes first.
C2_SortedStable ==
    Searched =>
        \A a, b \in 1..Len(matched) :
            a < b => /\ ScoreAt(matched[a]) >= ScoreAt(matched[b])
                     /\ ScoreAt(matched[a]) = ScoreAt(matched[b])
                            => matched[a] < matched[b]

\* two different records with the same score are both returned
C2_Witness ==
    /\ Searched
    /\ Len(matched) = 2
    /\ interventions[matched[1]] # interventions[matched[2]]
    /\ ScoreAt(matched[1]) = ScoreAt(matched[2])

\* the precondition of C3 as stated: the keywords list is empty and no word
\* of the query occurs in the context
NoKeywordsNoContextWord(i) ==
    LET words == Split(Lower(call.query))
        context == Lower(Get(interventions[i], "context", <<>>))
    IN  /\ Get(interventions[i], "keywords", <<>>) = <<>>
        /\ \A w \in 1..Len(words) : ~In(words[w], context)

\* no query word longer than 3 characters occurs in the intervention name
NoNameWord(i) ==
    LET words == Split(Lower(call.query))
        name == Lower(Get(interventions[i], "intervention", <<>>))
    IN  \A w \in 1..Len(words) : Len(words[w]) > 3 => ~In(words[w], name)

\* the record carries both a keywords list and a context
HasKeywordsAndContext(i) ==
    {"keywords", "context"} \subseteq DOMAIN interventions[i]

\* C3 as stated: an entry with an empty keywords list and a context that
\* contains no query word has score 0 and is not returned.
C3_AsStated ==
    Searched =>
        \A i \in 1..Len(interventions) :
            HasKeywordsAndContext(i) /\ NoKeywordsNoContextWord(i)
                => ScoreAt(i) = 0 /\ i \notin Returned

\* C3, amended: an entry with an empty keywords list, a context that contains
\* no query word and a name that contains no query word longer than 3
\* characters has score 0 and is not returned.
C3_Amended ==
    Searched =>
        \A i \in 1..Len(interventions) :
            NoKeywordsNoContextWord(i) /\ NoNameWord(i)
                => ScoreAt(i) = 0 /\ i \notin Returned

\* such an entry is left out while the search returns another record, and
\* the query has words
C3_Witness ==
    /\ Searched
    /\ matched # <<>>
    /\ \E i \in 1..Len(interventions) :
           /\ NoKeywordsNoContextWord(i) /\ NoNameWord(i)
           /\ HasKeywordsAndContext(i)
           /\ i \notin Returned

\* C4: for a query that contains "fatal crash blackspot" the priority score
\* of any intervention is at least 70.
C4_FatalCrashBlackspot ==
    Scored /\ In(Q_ScenarioB, call.query) => priority >= 70

\* a longer query that contains the text, scored for a record no other
\* signal fires on more than the medium-priority one
C4_Witness ==
    /\ Scored
    /\ In(Q_ScenarioB, call.query)
    /\ call.query # Q_ScenarioB
    /\ priority = 75

\* the positions of the catalog that hold the entry of scenario A
RumbleAt == {i \in 1..Len(interventions) : interventions[i] = RumbleStrips}

\* the records that rank before position i: a higher score, or the same score
\* and an earlier position
RankedBefore(i) ==
    {j \in 1..Len(interventions) :
        \/ ScoreAt(j) > ScoreAt(i)
        \/ ScoreAt(j) = ScoreAt(i) /\ j < i}

\* C5 as stated: for the query of scenario A the entry's lexical score is at
\* least 2*3 + 1 + 1 and the entry is returned.
C5_AsStated ==
    Searched /\ call.query = Q_ScenarioA =>
        \A i \in RumbleAt : ScoreAt(i) >= 2 * 3 + 1 + 1 /\ i \in Returned

\* C5, amended: the entry's lexical score is 2*3 + 1 (the name bonus does not
\* fire), and the entry is returned exactly when fewer than top_k records
\* rank before it.
C5_Amended ==
    Searched /\ call.query = Q_ScenarioA =>
        \A i \in RumbleAt :
            /\ ScoreAt(i) = 2 * 3 + 1
            /\ i \in Returned <=> Cardinality(RankedBefore(i)) < call.top_k

\* the entry is returned after a record of the same score that precedes it
C5_Witness ==
    /\ Searched
    /\ call.query = Q_ScenarioA
    /\ Len(matched) = 2
    /\ matched[2] \in RumbleAt
    /\ interventions[matched[1]] # RumbleStrips
    /\ ScoreAt(matched[1]) = ScoreAt(matched[2])

\* the long words of the last query: lower-cased, longer than 3 characters
LongQueryWords ==
    LET words == Split(Lower(call.query))
    IN  {words[w] : w \in {v \in 1..Len(words) : Len(words[v]) > 3}}

\* 1 when some long query word occurs in the lower-cased text, else 0
FlatBonus(text) ==
    IF \E word \in LongQueryWords : In(word, Lower(text)) THEN 1 ELSE 0

\* the keywords of record i that occur, as they are written, in the
\* lower-cased query
KeywordsFoundAsWritten(i) ==
    LET keywords == Get(interventions[i], "keywords", <<>>)
    IN  {k \in 1..Len(keywords) : In(keywords[k], Lower(call.query))}

\* the keywords of record i that occur, lower-cased, in the lower-cased query
KeywordsFoundLowered(i) ==
    LET keywords == Get(interventions[i], "keywords", <<>>)
    IN  {k \in 1..Len(keywords) : In(Lower(keywords[k]), Lower(call.query))}

\* C17 as stated: the lexical score of a record is 2 for each of its keywords
\* that occurs in the lower-cased query, plus 1 if any long query word occurs
\* in the lower-cased context, plus 1 if any occurs in the lower-cased name;
\* it is at most 2*|keywords| + 2.
C17_AsStated ==
    Searched =>
        \A i \in 1..Len(interventions) :
            /\ ScoreAt(i) = 2 * Cardinality(KeywordsFoundAsWritten(i))
                            + FlatBonus(Get(interventions[i], "context", <<>>))
                            + FlatBonus(Get(interventions[i], "intervention", <<>>))
            /\ ScoreAt(i) <= 2 * Len(Get(interventions[i], "keywords", <<>>)) + 2

\* C17, amended: the lexical score of a record is 2 for each of its keywords
\* that, lower-cased, occurs in the lower-cased query, plus 1 if any long
\* query word occurs in the lower-cased context, plus 1 if any occurs in the
\* lower-cased name; it is at most 2*|keywords| + 2; and the records returned
\* are records of positive score.
C17_Amended ==
    Searched =>
        \A i \in 1..Len(interventions) :
            /\ ScoreAt(i) = 2 * Cardinality(KeywordsFoundLowered(i))
                            + FlatBonus(Get(interventions[i], "context", <<>>))
                            + FlatBonus(Get(interventions[i], "intervention", <<>>))
            /\ ScoreAt(i) <= 2 * Len(Get(interventions[i], "keywords", <<>>)) + 2
            /\ i \in Returned => ScoreAt(i) > 0

\* a returned record with a capitalised keyword found in the query and
\* several long query words in its context: five keywords and one context bonus
C17_Witness ==
    /\ Searched
    /\ \E i \in Returned :
           /\ KeywordsFoundLowered(i) # KeywordsFoundAsWritten(i)
           /\ Cardinality({word \in LongQueryWords :
                  In(word, Lower(Get(interventions[i], "context", <<>>)))}) > 1
           /\ ScoreAt(i) = 2 * Cardinality(KeywordsFoundLowered(i)) + 1

\* the high-priority terms that occur in the lower-cased query of the last call
HighTermsFound ==
    {h \in 1..Len(high_priority_keywords) :
        In(high_priority_keywords[h], Lower(call.query))}

\* C18: the high-priority bonus is 20 when one or several high-priority
\* terms occur in the query and 0 when none does: the score is the clamped
\* sum of that bonus and of the other signals.
C18_HighBonusOnce ==
    Scored =>
        priority = Clamp(RawScore(call.intervention, call.query)
                         - HighPriorityBonus(Lower(call.query))
                         + (IF HighTermsFound = {} THEN 0 ELSE 20))

\* a query with three high-priority terms scores 50 + 20 on a record no
\* other signal fires on
C18_Witness ==
    /\ Scored
    /\ Cardinality(HighTermsFound) = 3
    /\ MediumMatches(Lower(call.query)) = 0
    /\ priority = 70

\* the terms of the medium-priority set that occur in the lower-cased query
\* of the last call
MediumTermsFound ==
    {term \in {W_pedestrian, W_school, W_intersection, W_curve, W_night, W_visibility} :
        In(term, Lower(call.query))}

\* C19: every term of the medium-priority set that occurs in the lower-cased
\* query adds 5: the score is the clamped sum of 5 times their number and of
\* the other signals.
C19_MediumCumulative ==
    Scored =>
        priority = Clamp(RawScore(call.intervention, call.query)
                         - MediumMatches(Lower(call.query)) * MediumBonus
                         + 5 * Cardinality(MediumTermsFound))

\* two medium-priority terms add 10 to the 50 + 20 of a query with
\* high-priority terms, on a record no other signal fires on
C19_Witness ==
    /\ Scored
    /\ Cardinality(MediumTermsFound) = 2
    /\ HighTermsFound # {}
    /\ priority = 80

\* the keywords of the scored record that search_interventions counts as
\* found in the query (line 161: keyword.lower() in query_lower)
FoundByMatcher ==
    LET keywords == Get(call.intervention, "keywords", <<>>)
    IN  {k \in 1..Len(keywords) : In(Lower(keywords[k]), Lower(call.query))}

\* C20 as stated: every keyword of the intervention that is found in the
\* query, as search_interventions finds it, adds 3: the score is the clamped
\* sum of 3 times their number and of the other signals.
C20_AsStated ==
    Scored =>
        priority = Clamp(RawScore(call.intervention, call.query)
                         - KeywordMatches(call.intervention, Lower(call.query))
                               * KeywordBonus
                         + 3 * Cardinality(FoundByMatcher))

\* the positions, in the lower-cased query of the last call, of the words
\* longer than 3 characters that occur in the scored record's context
LongTokensInContext ==
    LET words == Split(Lower(call.query))
        context == Lower(Get(call.intervention, "context", <<>>))
    IN  {w \in 1..Len(words) : Len(words[w]) > 3 /\ In(words[w], context)}

\* the distinct long query words that occur in the scored record's context
LongWordsInContext ==
    {word \in LongQueryWords :
        In(word, Lower(Get(call.intervention, "context", <<>>)))}

\* C21 as stated: each whitespace-separated word of the query that is longer
\* than 3 characters and is a substring of the intervention's context adds 2:
\* the score is the clamped sum of 2 for every such word of the query and of
\* the other signals.
C21_AsStated ==
    Scored =>
        priority = Clamp(RawScore(call.intervention, call.query)
                         - ContextMatches(call.intervention, Lower(call.query))
                               * ContextBonus
                         + 2 * Cardinality(LongTokensInContext))

\* C21, amended: each distinct word of the lower-cased query that is longer
\* than 3 characters and is a substring of the lower-cased context adds 2; a
\* word the query repeats is counted once.
C21_Amended ==
    Scored =>
        priority = Clamp(RawScore(call.intervention, call.query)
                         - ContextMatches(call.intervention, Lower(call.query))
                               * ContextBonus
                         + 2 * Cardinality(LongWordsInContext))

\* "rural rural" scored on the rumble-strips entry: the repeated word is in
\* the context, and the score is 50 + 3 (one keyword) + 2 (one word)
C21_Witness ==
    /\ Scored
    /\ Cardinality(LongTokensInContext) = 2
    /\ Cardinality(LongWordsInContext) = 1
    /\ priority = 55

\* C27: calculate_intervention_score never returns less than 50: every signal
\* adds to the base of 50, so the score lies in 50..100 and the lower clamp
\* at 1 never binds; and neither get_score_color nor get_score_color_hex gives
\* the low-priority (red) value for a score the scorer returned.
C27_NeverLowPriority ==
    Scored =>
        /\ priority \in 50..100
        /\ RawScore(call.intervention, call.query) >= 50
        /\ Max(ScoreFloor, RawScore(call.intervention, call.query))
               = RawScore(call.intervention, call.query)
        /\ \A j \in 1..Len(badge) :
               /\ badge[j].color_icon \in {YellowIcon, GreenIcon}
               /\ badge[j].color_hex \in {"#ffc107", "#28a745"}

\* a score on which no signal fires is shown: 50, with the moderate colour
C27_Witness ==
    /\ Scored
    /\ priority = 50
    /\ badge = <<[color_icon |-> YellowIcon, color_hex |-> "#ffc107"]>>

(***************************************************************************)
(* Properties of the knowledge base, checked under Spec.                   *)
(***************************************************************************)
Built == call.op = "build_knowledge_base"
Retrieved == call.op = "retrieve_relevant_chunks"

\* the chunks of the corpus the last build_knowledge_base call found
CorpusChunks == LoadAll(call.pdfs, 1)

\* the last build_knowledge_base call found a persisted index on disk
IndexOnDisk == call.db.dir = "files"

\* what a retrieve_relevant_chunks call returns in the current state
RetrievalNow(query, top_k) ==
    retrieve_relevant_chunks(vectorstore, chroma_db, query, top_k)

\* C6: build_knowledge_base(force_rebuild=False) over a persisted index loads
\* it and neither processes the corpus nor embeds anything; in every other
\* case it processes the corpus and hands every chunk to the embedder.
C6_LoadOrRebuild ==
    Built =>
        IF ~call.force_rebuild /\ IndexOnDisk
        THEN /\ ~built.processed
             /\ built.embedded = <<>>
             /\ chroma_db = call.db
             /\ ~call.db.corrupt => built.ret = "True" /\ vectorstore = "Chroma"
        ELSE /\ built.processed
             /\ built.embedded = CorpusChunks
             /\ built.ret = "True" =>
                    \A i \in 1..Len(CorpusChunks) :
                        \E r \in 1..Len(chroma_db.records) :
                            chroma_db.records[r] = CorpusChunks[i]

\* the index is loaded although the corpus holds chunks it does not hold
C6_Witness ==
    /\ Built
    /\ ~call.force_rebuild
    /\ IndexOnDisk
    /\ built.ret = "True"
    /\ CorpusChunks # <<>>
    /\ chroma_db.records = <<>>

\* C7 as stated: after a successful rebuild the persisted index holds exactly
\* the records of the chunks of the corpus.
C7_AsStated ==
    Built /\ built.processed /\ built.ret = "True"
        => chroma_db.records = CorpusChunks

\* the corpus of the last build_knowledge_base call had no usable document
EmptyCorpus == CorpusChunks = <<>>

\* C8 as stated: over an empty corpus build_knowledge_base returns False and
\* a following retrieve_relevant_chunks returns an empty sequence, neither
\* raising, whatever the flag and the persisted index.
C8_AsStated ==
    Built /\ EmptyCorpus =>
        /\ built.ret = "False"
        /\ \A query \in RetrievalQueries, top_k \in 1..MaxTopK :
               RetrievalNow(query, top_k) = NoChunks

\* C8, amended: over an empty corpus build_knowledge_base never raises. When
\* it takes the rebuild branch (force_rebuild, or no persisted index) it
\* returns False and leaves handle and index as they were; otherwise it
\* returns True exactly when the persisted index loads. A following
\* retrieve_relevant_chunks never raises, and returns an empty sequence when
\* the build returned False and the handle was unset before it.
C8_Amended ==
    Built /\ EmptyCorpus =>
        /\ built.ret # "raise"
        /\ call.force_rebuild \/ ~IndexOnDisk =>
               built.ret = "False" /\ vectorstore = call.vs /\ chroma_db = call.db
        /\ ~call.force_rebuild /\ IndexOnDisk =>
               (built.ret = "True" <=> ~call.db.corrupt)
        /\ \A query \in RetrievalQueries, top_k \in 1..MaxTopK :
               /\ ~RetrievalNow(query, top_k).raised
               /\ built.ret = "False" /\ call.vs = "None" =>
                      RetrievalNow(query, top_k) = NoChunks

\* a forced rebuild over an empty corpus fails on a fresh object although a
\* persisted index with records is on disk
C8_Witness ==
    /\ Built
    /\ EmptyCorpus
    /\ call.force_rebuild
    /\ call.vs = "None"
    /\ call.db.records # <<>>
    /\ ~call.db.corrupt
    /\ built.ret = "False"

\* C9: while no build_knowledge_base call has returned True,
\* retrieve_relevant_chunks returns an empty sequence and does not raise.
C9_EmptyBeforeBuild ==
    Retrieved /\ ~ever_ready => chunks = NoChunks

\* a retrieval after a failed build, with nothing persisted
C9_Witness ==
    /\ Retrieved
    /\ ~ever_ready
    /\ built.ret = "False"
    /\ chroma_db.dir = "missing"
    /\ chunks = NoChunks

\* C10: a retrieve_relevant_chunks call repeated with the same arguments
\* returns the same list, and a second build_knowledge_base(False) in a row
\* over an unchanged corpus leaves the result of every retrieval as it was.
C10_StableRetrieval ==
    [][/\ (/\ Retrieved
           /\ call'.op = "retrieve_relevant_chunks"
           /\ call'.query = call.query
           /\ call'.top_k = call.top_k) => chunks' = chunks
       /\ (/\ Built
           /\ ~call.force_rebuild
           /\ call.pdfs = data_dir.pdfs
           /\ call'.op = "build_knowledge_base"
           /\ ~call'.force_rebuild
           /\ call'.pdfs = call.pdfs)
              => \A query \in RetrievalQueries, top_k \in 1..MaxTopK :
                     retrieve_relevant_chunks(vectorstore', chroma_db', query, top_k)
                         = RetrievalNow(query, top_k)
      ]_vars

\* build_knowledge_base(False) has just built the index from the corpus, and
\* a retrieval returns two equally near chunks of different files
C10_Witness ==
    /\ Built
    /\ ~call.force_rebuild
    /\ built.processed
    /\ built.ret = "True"
    /\ call.pdfs = data_dir.pdfs
    /\ \E query \in RetrievalQueries :
           LET docs == RetrievalNow(query, 2).docs
           IN  /\ Len(docs) = 2
               /\ docs[1].source # docs[2].source
               /\ Embed(docs[1].page_content) = Embed(docs[2].page_content)

\* the files of the listing the last build found that PyPDFLoader can read
ReadableFiles == SelectSeq(call.pdfs, LAMBDA file : file.readable)

\* the chunks of the given files, file after file
RECURSIVE ChunksOf(_)
ChunksOf(files) ==
    IF files = <<>> THEN <<>> ELSE DocsOf(Head(files).name) \o ChunksOf(Tail(files))

\* C23: during ingestion a file that cannot be read is skipped and adds no
\* chunk, and every other file of the directory is still processed: a build
\* that processes the corpus hands the embedder exactly the chunks of the
\* readable files, in the listing's order, whichever files fail; when no file
\* is readable it has no chunk and returns False.
C23_UnreadableSkipped ==
    (Built /\ built.processed) =>
        IF ChunksOf(ReadableFiles) = <<>>
        THEN built.ret = "False" /\ built.embedded = <<>>
        ELSE built.ret \in {"True", "raise"} /\ built.embedded = ChunksOf(ReadableFiles)

\* the first file of the listing is unreadable, the second is read and embedded
C23_Witness ==
    /\ Built
    /\ built.processed
    /\ Len(call.pdfs) = 2
    /\ ~call.pdfs[1].readable
    /\ call.pdfs[2].readable
    /\ built.ret = "True"
    /\ built.embedded = DocsOf(call.pdfs[2].name)
(***************************************************************************)
(* Properties of generate_response and of the application session, checked *)
(* under SpecApp.                                                          *)
(***************************************************************************)
Answered == call.op = "generate_response"

\* the request of the last generate_response call failed
ServiceFailed == Answered /\ call.outcome # "ok"

\* C11: when the request to the text-generation service fails,
\* generate_response returns; its response field is the string that reports
\* the failure, and the matched interventions, the chunks, the sources and
\* the query are filled in as for any other call.
C11_FailureBecomesResult ==
    ServiceFailed =>
        LET positions == search_interventions(interventions, call.query, SearchTopK)
            docs == RetrievalNow(QueryText(call.query), RetrieveTopK).docs
        IN  /\ result.ret = "return"
            /\ result.response = "Error calling Groq API: " \o call.outcome
            /\ result.query = call.query
            /\ Len(result.matched_interventions) = Len(positions)
            /\ \A j \in 1..Len(positions) :
                   /\ result.matched_interventions[j].intervention
                          = interventions[positions[j]].intervention
                   /\ result.matched_interventions[j].priority_score \in 1..100
            /\ result.relevant_chunks = docs
            /\ result.sources = {docs[j].source : j \in 1..Len(docs)}

\* the request ran into the quota, and the result carries a matched
\* intervention and chunks of two files
C11_Witness ==
    /\ ServiceFailed
    /\ call.outcome = "quota"
    /\ result.ret = "return"
    /\ result.matched_interventions # <<>>
    /\ Cardinality(result.sources) = 2

\* C12: with an unparsable catalog file the construction of the service
\* object fails with JSONDecodeError, at every attempt: no object exists, so
\* none with an empty catalog, and nothing is ever answered.
C12_MalformedCatalogFailsLoad ==
    catalog_file.state = "malformed" =>
        /\ rag_system = "None"
        /\ call # NoCall => call = [op |-> "initialize_rag", raised |-> "JSONDecodeError"]
        /\ result = NoResult
        /\ ~kb_built

\* the construction has been attempted over an unparsable catalog file
C12_Witness ==
    /\ catalog_file.state = "malformed"
    /\ call.op = "initialize_rag"
    /\ call.raised = "JSONDecodeError"
    /\ rag_system = "None"

\* C13: a generate_response call leaves the catalog, the index handle, the
\* persisted index and the corpus directory as they were, and no record of
\* the catalog carries a priority_score field after it.
C13_NothingMutated ==
    [][call'.op = "generate_response" =>
           /\ interventions' = interventions
           /\ vectorstore' = vectorstore
           /\ chroma_db' = chroma_db
           /\ data_dir' = data_dir
           /\ \A i \in 1..Len(interventions') :
                  "priority_score" \notin DOMAIN interventions'[i]
      ]_vars

\* a call has returned a record with its priority_score, and the catalog is
\* what the catalog file holds
C13_Witness ==
    /\ Answered
    /\ result.ret = "return"
    /\ result.matched_interventions # <<>>
    /\ "priority_score" \in DOMAIN result.matched_interventions[1]
    /\ interventions = catalog_file.content
    /\ \A i \in 1..Len(interventions) : "priority_score" \notin DOMAIN interventions[i]

\* C14: every generate_response call sends exactly one request to the
\* text-generation service, whether the request succeeds or fails and
\* whatever was matched or retrieved.
C14_OneRequestPerCall ==
    Answered => groq_requests = 1

\* a failed request of a call that matched no record and retrieved no chunk
C14_Witness ==
    /\ ServiceFailed
    /\ result.ret = "return"
    /\ result.matched_interventions = <<>>
    /\ result.relevant_chunks = <<>>
    /\ interventions # <<>>
    /\ groq_requests = 1

\* the script run reaches initialize_rag with no service object in the session
Startup == rag_system = "None"

\* C16 as stated: generate_response is called only while kb_built is true,
\* and a start over an empty or missing corpus directory (the catalog file
\* being parsable or missing) does not fail and leaves the session not ready.
C16_AsStated ==
    [][/\ call'.op = "generate_response" => kb_built
       /\ Startup /\ get_pdf_files(data_dir) = <<>>
              /\ catalog_file.state # "malformed" =>
              /\ rag_system' = "object"
              /\ built'.ret = "False"
              /\ ~kb_built'
      ]_vars

\* C16, amended: generate_response is called only while kb_built is true,
\* and kb_built is true only after a build_knowledge_base call has returned
\* True. A start over an empty or missing corpus directory, the catalog file
\* being parsable or missing, does not fail; it leaves the session ready
\* exactly when a persisted index is on disk and loads, and not ready
\* otherwise.
C16_Amended ==
    [][/\ call'.op = "generate_response" => kb_built /\ ever_ready
       /\ kb_built' => ever_ready' /\ vectorstore' = "Chroma"
       /\ Startup /\ get_pdf_files(data_dir) = <<>>
              /\ catalog_file.state # "malformed" =>
              /\ rag_system' = "object"
              /\ built'.ret \in {"True", "False"}
              /\ kb_built' <=> (chroma_db.dir = "files" /\ ~chroma_db.corrupt)
      ]_vars

\* after a start over an empty corpus with nothing persisted, a query is
\* turned away
C16_Witness ==
    /\ call.op = "get_recommendations"
    /\ call.blocked
    /\ rag_system = "object"
    /\ ~kb_built
    /\ data_dir.pdfs = <<>>
    /\ chroma_db.dir = "missing"
    /\ result = NoResult

(***************************************************************************)
(* Properties of the answers over longer catalogs, checked under           *)
(* SpecAnswer.                                                             *)
(***************************************************************************)
\* the positions search_interventions(query, top_k=3) returns on the catalog
\* of the last generate_response call
SearchedForAnswer == search_interventions(call.catalog, call.query, 3)

\* a matched record of the result without its priority_score
WithoutPriorityScore(rec) == [f \in DOMAIN rec \ {"priority_score"} |-> rec[f]]

\* C22: the matched list generate_response returns is the output of
\* search_interventions(query, top_k=3) in the same order, so at most 3
\* records and none of lexical score 0, and every element is the catalog
\* record with a priority_score equal to calculate_intervention_score of that
\* record and the same query.
C22_MatchedIsScoredSearch ==
    (Answered /\ result.ret = "return") =>
        /\ Len(result.matched_interventions) = Len(SearchedForAnswer)
        /\ Len(result.matched_interventions) <= 3
        /\ \A j \in 1..Len(SearchedForAnswer) :
               LET rec == result.matched_interventions[j]
                   inv == call.catalog[SearchedForAnswer[j]]
               IN  /\ WithoutPriorityScore(rec) = inv
                   /\ rec.priority_score = calculate_intervention_score(inv, call.query)
                   /\ LexicalScore(inv, Lower(call.query)) > 0

\* a catalog of four records that all match the query: three are returned,
\* best first and not in catalog order, with scores that differ
C22_Witness ==
    /\ Answered
    /\ result.ret = "return"
    /\ Len(call.catalog) = 4
    /\ \A i \in 1..4 : LexicalScore(call.catalog[i], Lower(call.query)) > 0
    /\ SearchedForAnswer = <<3, 4, 2>>
    /\ Len(result.matched_interventions) = 3
    /\ result.matched_interventions[1].priority_score
           # result.matched_interventions[3].priority_score
(***************************************************************************)
(* Properties of a session with uploads, checked under SpecSession.        *)
(***************************************************************************)
\* the step is the script run in which initialize_rag constructs the object
StartupStep == rag_system = "None" /\ rag_system' = "object"

\* the step changes the index, the handle or the outcome of the last build
\* only if it is a build_knowledge_base call: handling a query builds nothing
OnlyBuildCallsBuild ==
    (chroma_db' # chroma_db \/ vectorstore' # vectorstore \/ built' # built)
        => call'.op = "build_knowledge_base"

\* C26 as stated: the corpus is processed and embedded only on an explicit
\* trigger (a forced rebuild by one of the two buttons); the startup
\* initialization never processes the corpus, and handling a query never
\* builds.
C26_AsStated ==
    [][/\ StartupStep => ~built'.processed
       /\ OnlyBuildCallsBuild]_vars

\* C26, amended: the startup initialization processes and embeds the corpus
\* exactly when no persisted index is on disk (the index directory is missing
\* or empty) and otherwise only opens the index; every other change of the
\* index comes from a forced rebuild by one of the two buttons; handling a
\* query never builds.
C26_Amended ==
    [][/\ StartupStep =>
              /\ built'.processed = (chroma_db.dir \in {"missing", "empty"})
              /\ chroma_db.dir = "files" => chroma_db' = chroma_db
       /\ (chroma_db' # chroma_db /\ ~StartupStep) =>
              (rag_system = "object" /\ call'.op = "build_knowledge_base"
                                     /\ call'.force_rebuild)
       /\ OnlyBuildCallsBuild]_vars

\* the startup initialization found no index and embedded the corpus
C26_Witness ==
    /\ Built
    /\ ~call.force_rebuild
    /\ call.db.dir = "missing"
    /\ rag_system = "object"
    /\ built.processed
    /\ built.embedded # <<>>
    /\ chroma_db.records = built.embedded
    /\ kb_built

\* C28: a forced rebuild that fails because the corpus yields no chunk leaves
\* the index handle and the persisted index as they were, so every search
\* returns what it returned before, and kb_built keeps its value.
C28_FailedRebuildKeepsState ==
    [][(/\ rag_system = "object"
        /\ call'.op = "build_knowledge_base"
        /\ call'.force_rebuild
        /\ call'.db = chroma_db
        /\ call'.vs = vectorstore
        /\ built'.ret = "False")
       => /\ vectorstore' = vectorstore
          /\ chroma_db' = chroma_db
          /\ kb_built' = kb_built
          /\ \A query \in RetrievalQueries, top_k \in 1..MaxTopK :
                 retrieve_relevant_chunks(vectorstore', chroma_db', query, top_k)
                     = retrieve_relevant_chunks(vectorstore, chroma_db, query, top_k)]_vars

\* a forced rebuild failed in a session that has an index open: the handle,
\* the index and the flag are those of before
C28_Witness ==
    /\ Built
    /\ call.force_rebuild
    /\ built.ret = "False"
    /\ call.vs = "Chroma"
    /\ vectorstore = "Chroma"
    /\ chroma_db = call.db
    /\ chroma_db.records # <<>>
    /\ kb_built

\* C29: kb_built implies that the service object exists and that its index
\* handle is set; it becomes true only in a step in which build_knowledge_base
\* returned True, and once true it stays true, whatever is started, rebuilt,
\* uploaded or asked.
C29_KbBuiltSound ==
    [][/\ kb_built' => (rag_system' = "object" /\ vectorstore' = "Chroma")
       /\ (~kb_built /\ kb_built') =>
              (call'.op = "build_knowledge_base" /\ built'.ret = "True")
       /\ kb_built => kb_built']_vars

\* the flag is still set after an upload of an unreadable file and a forced
\* rebuild that failed on it
C29_Witness ==
    /\ kb_built
    /\ Built
    /\ call.force_rebuild
    /\ built.ret = "False"
    /\ call.pdfs # <<>>
    /\ \A i \in 1..Len(call.pdfs) : ~call.pdfs[i].readable
(***************************************************************************)
(* Properties of two sessions on one index directory, checked under        *)
(* SpecShared.                                                             *)
(***************************************************************************)
\* C15 as stated: a search made while a rebuild is in progress finds on disk
\* either the index as it was before the rebuild or the index as the rebuild
\* leaves it, never a part of what the rebuild writes.
C15_AsStated ==
    seen.during => seen.records = seen.old \/ seen.records = seen.new


(***************************************************************************)
(* Properties of the extraction workflow, checked under SpecExtract.       *)
(***************************************************************************)
\* the last run_extraction call wrote the catalog file
Wrote == call.op = "run_extraction" /\ call.wrote

\* the records of s at the positions in J, in order
Pick(s, J) ==
    LET upto[i \in 0..Len(s)] ==
            IF i = 0 THEN <<>>
            ELSE IF i \in J THEN Append(upto[i - 1], s[i]) ELSE upto[i - 1]
    IN  upto[Len(s)]

SameNameIgnoringCase(a, b) == Lower(a.intervention) = Lower(b.intervention)

SameNameIgnoringCaseAndBlanks(a, b) ==
    Strip(Lower(a.intervention)) = Strip(Lower(b.intervention))

\* the new records of the last run that have the name, ignoring case, of no
\* existing record and of no new record before them
NewIgnoringCase ==
    {j \in 1..Len(call.new) :
        /\ \A i \in 1..Len(call.existing) :
               ~SameNameIgnoringCase(call.existing[i], call.new[j])
        /\ \A k \in 1..(j - 1) : ~SameNameIgnoringCase(call.new[k], call.new[j])}

\* the same, ignoring case and leading and trailing whitespace
NewIgnoringCaseAndBlanks ==
    {j \in 1..Len(call.new) :
        /\ \A i \in 1..Len(call.existing) :
               ~SameNameIgnoringCaseAndBlanks(call.existing[i], call.new[j])
        /\ \A k \in 1..(j - 1) :
               ~SameNameIgnoringCaseAndBlanks(call.new[k], call.new[j])}

\* C24 as stated: the merge keeps every existing record, unchanged and in
\* order, as a prefix of the result, and appends a new record if and only if
\* no record already in the result has the same intervention name ignoring
\* case.
C24_AsStated ==
    Wrote => catalog_file.content = call.existing \o Pick(call.new, NewIgnoringCase)

\* C24, amended: the merge keeps every existing record, unchanged and in
\* order, as a prefix of the result, and appends a new record if and only if
\* no record already in the result has the same intervention name ignoring
\* case and leading and trailing whitespace.
C24_Amended ==
    Wrote =>
        catalog_file.content = call.existing \o Pick(call.new, NewIgnoringCaseAndBlanks)

\* of two new records, the first has the name of an existing record in
\* another case and is skipped, the second is appended
C24_Witness ==
    /\ Wrote
    /\ Len(call.new) = 2
    /\ call.existing # <<>>
    /\ call.new[1].intervention # call.existing[1].intervention
    /\ SameNameIgnoringCase(call.new[1], call.existing[1])
    /\ catalog_file.content = Append(call.existing, call.new[2])

\* C25 as stated: every record of the catalog has a non-empty intervention
\* name, in the in-memory catalog after load_interventions and in the catalog
\* file after any sequence of extraction runs.
C25_AsStated ==
    /\ rag_system = "object" =>
           \A i \in 1..Len(interventions) : interventions[i].intervention # <<>>
    /\ (call.op = "run_extraction" /\ catalog_file.state = "valid") =>
           \A i \in 1..Len(catalog_file.content) :
               catalog_file.content[i].intervention # <<>>

=============================================================================
